---- MODULE Spec2Model ----
(***************************************************************************)
(* mlua_magic_macros: the attribute macros `structure`, `enumeration` and  *)
(* `implementation`, the function-like macro `compile!`, and the script    *)
(* side behaviour of the code they generate.                               *)
(*                                                                         *)
(* A behaviour is the build of one crate followed by a script run: the     *)
(* macros expand the items of `source`, the generated `impl UserData` is   *)
(* registered, and script operations go through the registered tables.     *)
(***************************************************************************)
EXTENDS Integers, Sequences, FiniteSets, TLC

VARIABLES
    source,          \* the items of the crate: item_struct, item_enum, item_impl, tokens of compile!
    fields_helper,   \* `_to_mlua_fields` as generated by #[structure]
    variants_helper, \* `_to_mlua_variants` and `impl FromLua` as generated by #[enumeration]
    methods_helper,  \* `_to_mlua_methods` as generated by #[implementation]
    pc,              \* position of compile! (CompileInput::parse, then the helper loop)
    cursor,          \* ParseStream: index of the next unread token
    iters,           \* iterations of the `while !input.is_empty()` loop entered so far
    type_name,       \* CompileInput.type_name
    helpers,         \* CompileInput.helpers
    has_fields, has_methods, has_variants,
    hidx,            \* index of the next helper of `for helper in helpers`
    output,          \* the token stream compile! returns
    field_table,     \* UserDataFields registry filled by add_fields
    method_table,    \* UserDataMethods registry filled by add_methods
    registered,      \* whether mlua has run add_fields / add_methods
    ud,              \* the instance held by the userdata cell
    shadow,          \* the instance as the declared routines leave it (history variable)
    result           \* what the last script operation returned

vars == <<source, fields_helper, variants_helper, methods_helper, pc, cursor, iters,
          type_name, helpers, has_fields, has_methods, has_variants, hidx, output,
          field_table, method_table, registered, ud, shadow, result>>

buildVars == <<fields_helper, variants_helper, methods_helper>>
compileVars == <<pc, cursor, iters, type_name, helpers, has_fields, has_methods,
                 has_variants, hidx, output>>
runVars == <<field_table, method_table, registered, ud, shadow, result>>

----------------------------------------------------------------------------
(* Bounds of the model *)

MaxHelpers == 3   \* helper identifiers in a well-formed compile! input
MaxRaw == 4       \* tokens in an arbitrary compile! input
MaxFields == 3    \* fields of a struct
MaxVariants == 3  \* variants of an enum
MaxRoutines == 2  \* items of an impl block
MaxParams == 2    \* parameters of a routine
MaxCounter == 10  \* cap of Counter.value

----------------------------------------------------------------------------
(* Tokens and identifiers *)

None == [sym |-> "", span |-> 0]

\* proc_macro2::Ident: its text and its span (the position in the input it came from)
Ident(s, at) == [sym |-> s, span |-> at]

\* Ident::to_string
to_string(ident) == ident.sym

Comma == [kind |-> "Comma", sym |-> ","]
Punct == [kind |-> "Punct", sym |-> "#"]
IdentTok(s) == [kind |-> "Ident", sym |-> s]

HelperSyms == {"fields", "methods", "variants", "bogus"}


\* Sequences over S of length at most n
SeqsUpTo(S, n) == UNION {[1..k -> S] : k \in 0..n}

\* Injective sequences over S of length at most n
InjSeqsUpTo(S, n) == {q \in SeqsUpTo(S, n) : \A i, j \in 1..Len(q) : q[i] = q[j] => i = j}

\* The token list `TypeName, h1, h2, ...` with an optional trailing comma
RECURSIVE CommaList(_)
CommaList(syms) ==
    IF syms = <<>> THEN <<>>
    ELSE <<Comma, IdentTok(Head(syms))>> \o CommaList(Tail(syms))

Render(tn, syms, trailing) ==
    <<IdentTok(tn)>> \o CommaList(syms) \o (IF trailing THEN <<Comma>> ELSE <<>>)

WellFormedInputs ==
    {Render("Player", syms, tr) : syms \in SeqsUpTo(HelperSyms, MaxHelpers), tr \in BOOLEAN}

RawInputs ==
    SeqsUpTo({IdentTok("Player"), IdentTok("fields"), IdentTok("bogus"), Comma, Punct}, MaxRaw)

----------------------------------------------------------------------------
(* Generated registrations *)

\* one `fields.add_*` / `methods.add_*` statement of a helper: the builder method
\* called, the string key, the #name and the identifier spliced into the closure
\* body, what the closure body does with them, and the closure's argument tuple
Entry(api, key, name, ident, body, arg_names, arg_tys) ==
    [api |-> api, key |-> key, name |-> name, ident |-> ident, body |-> body,
     arg_names |-> arg_names, arg_tys |-> arg_tys]

NoHelper == [state |-> "absent", owner |-> None, entries |-> <<>>, to |-> ""]
Panicked == [state |-> "panicked", owner |-> None, entries |-> <<>>, to |-> ""]

\* impl #name { pub fn _to_mlua_*(..) { #(#entries)* } }
HelperFn(name, entries, to) ==
    [state |-> "generated", owner |-> name, entries |-> entries, to |-> to]

----------------------------------------------------------------------------
(* #[structure] *)

NoStruct == [ident |-> None, style |-> "absent", fields |-> <<>>]

\* the body of `for field in &ast.fields`: one getter, keyed by the field's name
FieldGetter(field) ==
    Entry("add_field_method_get", to_string(field.ident), None, field.ident, "get_field",
          <<>>, <<>>)

\* the loop with the commented-out add_field_method_set block enabled
structure_with_setters(ast) ==
    IF \E i \in 1..Len(ast.fields) : ast.fields[i].ident = None
    THEN Panicked
    ELSE HelperFn(ast.ident,
                  [i \in 1..(2 * Len(ast.fields)) |->
                      IF i % 2 = 1 THEN FieldGetter(ast.fields[(i + 1) \div 2])
                      ELSE [FieldGetter(ast.fields[i \div 2]) EXCEPT
                               !.api = "add_field_method_set"]],
                  "")

\* the loop skipping a field without a name instead of panicking
structure_skipping_unnamed(ast) ==
    LET named == SelectSeq(ast.fields, LAMBDA f : f.ident # None)
    IN  HelperFn(ast.ident, [i \in 1..Len(named) |-> FieldGetter(named[i])], "")

\* field.ident.as_ref().expect("Field must have a name") panics on a field without a name
structure(ast) ==
    IF \E i \in 1..Len(ast.fields) : ast.fields[i].ident = None
    THEN Panicked
    ELSE HelperFn(ast.ident, [i \in 1..Len(ast.fields) |-> FieldGetter(ast.fields[i])], "")

Structure ==
    /\ source.item_struct # NoStruct
    /\ fields_helper = NoHelper
    /\ fields_helper' = structure(source.item_struct)
    /\ UNCHANGED <<source, variants_helper, methods_helper, compileVars, runVars>>

----------------------------------------------------------------------------
(* #[enumeration] *)

NoEnum == [ident |-> None, variants |-> <<>>]

\* every variant taken for a unit variant
IsUnit_any(variant) == TRUE

\* if let Fields::Unit = &variant.fields
IsUnit(variant) == variant.fields = "Unit"

\* methods.add_function(#variant_name_str, |_, (): ()| Ok(#name::#variant_name))
VariantConstructor(name, variant) ==
    Entry("add_function", to_string(variant.ident), name, variant.ident, "variant",
          <<>>, <<>>)

\* variant_registrations after `for variant in &ast.variants`
RECURSIVE variant_registrations(_, _)
variant_registrations(name, variants) ==
    IF variants = <<>> THEN <<>>
    ELSE (IF IsUnit(Head(variants)) THEN <<VariantConstructor(name, Head(variants))>>
          ELSE <<>>)
         \o variant_registrations(name, Tail(variants))

\* the helper `_to_mlua_variants` and `impl FromLua for #name` with to: #name_str
enumeration(ast) ==
    HelperFn(ast.ident, variant_registrations(ast.ident, ast.variants), to_string(ast.ident))

Enumeration ==
    /\ source.item_enum # NoEnum
    /\ variants_helper = NoHelper
    /\ variants_helper' = enumeration(source.item_enum)
    /\ UNCHANGED <<source, fields_helper, methods_helper, compileVars, runVars>>

----------------------------------------------------------------------------
(* #[implementation] *)

NoImpl == [self_ty |-> None, items |-> <<>>]

\* syn::FnArg: a Receiver (reference, mutability, ty) or a Typed pattern (pat, ident, ty)
Receiver(reference, mutability, ty) ==
    [kind |-> "Receiver", reference |-> reference, mutability |-> mutability,
     pat |-> "", ident |-> None, ty |-> ty]
Typed(pat, ident, ty) ==
    [kind |-> "Typed", reference |-> FALSE, mutability |-> FALSE,
     pat |-> pat, ident |-> ident, ty |-> ty]

\* the filter_map closure without the Pat::Ident test
IsForwarded_any_typed(arg) == arg.kind = "Typed"

\* the filter_map closure: a typed argument bound by a plain identifier is kept
IsForwarded(arg) == arg.kind = "Typed" /\ arg.pat = "Ident"

\* (arg_names, arg_tys) = inputs.iter().filter_map(..).unzip()
arg_names(inputs) == LET kept == SelectSeq(inputs, IsForwarded)
                     IN  [i \in 1..Len(kept) |-> kept[i].ident]
arg_tys(inputs) == LET kept == SelectSeq(inputs, IsForwarded)
                   IN  [i \in 1..Len(kept) |-> kept[i].ty]

\* Signature::receiver(): the first input when it is a Receiver
HasReceiver(inputs) == inputs # <<>> /\ Head(inputs).kind = "Receiver"

\* the chain without the mutability test
MethodApi_never_mut(inputs) ==
    IF HasReceiver(inputs) THEN "add_method" ELSE "add_function"

\* the if / else chain on sig.receiver() and receiver.mutability.is_some()
MethodApi(inputs) ==
    IF HasReceiver(inputs)
    THEN IF Head(inputs).mutability THEN "add_method_mut" ELSE "add_method"
    ELSE "add_function"

\* the body of `for item in &ast.items`, for an ImplItem::Fn
MethodRegistration(name, fn_item) ==
    Entry(MethodApi(fn_item.inputs), to_string(fn_item.ident), name, fn_item.ident, "call",
          arg_names(fn_item.inputs), arg_tys(fn_item.inputs))

\* method_registrations after the loop: non-Fn items push nothing
RECURSIVE method_registrations(_, _)
method_registrations(name, items) ==
    IF items = <<>> THEN <<>>
    ELSE (IF Head(items).kind = "Fn" THEN <<MethodRegistration(name, Head(items))>>
          ELSE <<>>)
         \o method_registrations(name, Tail(items))

implementation(ast) ==
    HelperFn(ast.self_ty, method_registrations(ast.self_ty, ast.items), "")

Implementation ==
    /\ source.item_impl # NoImpl
    /\ methods_helper = NoHelper
    /\ methods_helper' = implementation(source.item_impl)
    /\ UNCHANGED <<source, fields_helper, variants_helper, compileVars, runVars>>

----------------------------------------------------------------------------
(* compile!: CompileInput::parse *)

NoOutput ==
    [kind |-> "none", type_name |-> None, add_fields |-> <<>>, add_methods |-> <<>>,
     span |-> 0, message |-> ""]

\* syn::Error::new(span, message).to_compile_error()
to_compile_error(span, message) ==
    [kind |-> "compile_error", type_name |-> None, add_fields |-> <<>>, add_methods |-> <<>>,
     span |-> span, message |-> message]

\* is_empty taken one token early
is_empty_early(toks, cur) == cur >= Len(toks)

\* ParseStream::is_empty
is_empty(toks, cur) == cur > Len(toks)

\* whether the next token parses as T
peek(toks, cur, kind) == ~is_empty(toks, cur) /\ toks[cur].kind = kind

\* `?` on a failed input.parse(): parse_macro_input! returns the error's tokens
ParseFails(message) ==
    /\ output' = to_compile_error(cursor, message)
    /\ pc' = "done"
    /\ UNCHANGED <<cursor, type_name, helpers>>

\* the attribute macros above compile! in the crate have been expanded
Expanded ==
    /\ source.item_struct # NoStruct => fields_helper # NoHelper
    /\ source.item_enum # NoEnum => variants_helper # NoHelper
    /\ source.item_impl # NoImpl => methods_helper # NoHelper

\* let type_name: Ident = input.parse()?;
ParseTypeName ==
    /\ pc = "parse"
    /\ Expanded
    /\ IF peek(source.tokens, cursor, "Ident")
       THEN /\ type_name' = Ident(source.tokens[cursor].sym, cursor)
            /\ cursor' = cursor + 1
            /\ pc' = "while"
            /\ UNCHANGED <<helpers, output>>
       ELSE ParseFails("expected identifier")
    /\ UNCHANGED <<iters, has_fields, has_methods, has_variants, hidx>>
    /\ UNCHANGED <<source, buildVars, runVars>>

\* while !input.is_empty() is false: Ok(CompileInput { type_name, helpers })
ParseReturn ==
    /\ pc = "while"
    /\ is_empty(source.tokens, cursor)
    /\ pc' = "for"
    /\ UNCHANGED <<cursor, iters, type_name, helpers, has_fields, has_methods,
                   has_variants, hidx, output>>
    /\ UNCHANGED <<source, buildVars, runVars>>

\* while !input.is_empty() { input.parse::<Token![,]>()?;
ParseComma ==
    /\ pc = "while"
    /\ ~is_empty(source.tokens, cursor)
    /\ iters' = iters + 1
    /\ IF peek(source.tokens, cursor, "Comma")
       THEN /\ cursor' = cursor + 1
            /\ pc' = "after_comma"
            /\ UNCHANGED <<type_name, helpers, output>>
       ELSE ParseFails("expected ,")
    /\ UNCHANGED <<has_fields, has_methods, has_variants, hidx>>
    /\ UNCHANGED <<source, buildVars, runVars>>

\* if input.is_empty() { break; }
ParseBreak ==
    /\ pc = "after_comma"
    /\ is_empty(source.tokens, cursor)
    /\ pc' = "for"
    /\ UNCHANGED <<cursor, iters, type_name, helpers, has_fields, has_methods,
                   has_variants, hidx, output>>
    /\ UNCHANGED <<source, buildVars, runVars>>

\* helpers.push(input.parse()?);
ParseHelper ==
    /\ pc = "after_comma"
    /\ ~is_empty(source.tokens, cursor)
    /\ IF peek(source.tokens, cursor, "Ident")
       THEN /\ helpers' = Append(helpers, Ident(source.tokens[cursor].sym, cursor))
            /\ cursor' = cursor + 1
            /\ pc' = "while"
            /\ UNCHANGED <<type_name, output>>
       ELSE ParseFails("expected identifier")
    /\ UNCHANGED <<iters, has_fields, has_methods, has_variants, hidx>>
    /\ UNCHANGED <<source, buildVars, runVars>>

----------------------------------------------------------------------------
(* compile!: the helper loop and the emitted impl *)

UnknownHelperMessage == "Unknown helper: expected 'fields', 'methods', or 'variants'"

\* the chain without its final else: an unknown name sets no flag
HelperFlag_ignoring(h) ==
    IF h = "fields" THEN "has_fields"
    ELSE IF h = "methods" THEN "has_methods"
    ELSE IF h = "variants" THEN "has_variants"
    ELSE "ignored"

\* the if / else-if chain of the loop body: which flag a helper name sets
HelperFlag(h) ==
    IF h = "fields" THEN "has_fields"
    ELSE IF h = "methods" THEN "has_methods"
    ELSE IF h = "variants" THEN "has_variants"
    ELSE "unknown"

\* let fields_call = if has_fields { Self::_to_mlua_fields(fields); } else { }
fields_call(hf) == IF hf THEN <<"_to_mlua_fields">> ELSE <<>>

\* let methods_call = if has_methods { Self::_to_mlua_methods(methods); } else { }
methods_call(hm) == IF hm THEN <<"_to_mlua_methods">> ELSE <<>>

\* let variants_call = if has_variants { Self::_to_mlua_variants(methods); } else { }
variants_call(hv) == IF hv THEN <<"_to_mlua_variants">> ELSE <<>>

\* the impl with #variants_call spliced into add_fields
UserDataImpl_variants_as_fields(tn, hf, hm, hv) ==
    [kind |-> "impl_user_data", type_name |-> tn,
     add_fields |-> fields_call(hf) \o variants_call(hv),
     add_methods |-> methods_call(hm),
     span |-> 0, message |-> ""]

\* impl mlua::UserData for #type_name { fn add_fields .. fn add_methods .. }
UserDataImpl(tn, hf, hm, hv) ==
    [kind |-> "impl_user_data", type_name |-> tn,
     add_fields |-> fields_call(hf),
     add_methods |-> methods_call(hm) \o variants_call(hv),
     span |-> 0, message |-> ""]

\* one iteration of `for helper in helpers`
CheckHelper ==
    /\ pc = "for"
    /\ hidx <= Len(helpers)
    /\ LET helper == helpers[hidx]
           flag == HelperFlag(to_string(helper))
       IN  IF flag = "unknown"
           THEN /\ output' = to_compile_error(helper.span, UnknownHelperMessage)
                /\ pc' = "done"
                /\ UNCHANGED <<has_fields, has_methods, has_variants, hidx>>
           ELSE /\ has_fields' = (has_fields \/ flag = "has_fields")
                /\ has_methods' = (has_methods \/ flag = "has_methods")
                /\ has_variants' = (has_variants \/ flag = "has_variants")
                /\ hidx' = hidx + 1
                /\ UNCHANGED <<pc, output>>
    /\ UNCHANGED <<cursor, iters, type_name, helpers>>
    /\ UNCHANGED <<source, buildVars, runVars>>

\* after the loop: assemble and return the impl block
Emit ==
    /\ pc = "for"
    /\ hidx > Len(helpers)
    /\ output' = UserDataImpl(type_name, has_fields, has_methods, has_variants)
    /\ pc' = "done"
    /\ UNCHANGED <<cursor, iters, type_name, helpers, has_fields, has_methods,
                   has_variants, hidx>>
    /\ UNCHANGED <<source, buildVars, runVars>>

----------------------------------------------------------------------------
(* The declarations of tests/example.rs and of the Counter scenario *)

PlayerStatusEnum ==
    [ident |-> Ident("PlayerStatus", 0),
     variants |-> <<[ident |-> Ident("Idle", 0), fields |-> "Unit"],
                    [ident |-> Ident("Walking", 0), fields |-> "Unit"],
                    [ident |-> Ident("Attacking", 0), fields |-> "Unit"]>>]

PlayerStruct ==
    [ident |-> Ident("Player", 0), style |-> "Named",
     fields |-> <<[ident |-> Ident("name", 0), ty |-> "String"],
                  [ident |-> Ident("hp", 0), ty |-> "i32"],
                  [ident |-> Ident("status", 0), ty |-> "PlayerStatus"]>>]

PlayerImpl ==
    [self_ty |-> Ident("Player", 0),
     items |-> <<[kind |-> "Fn", ident |-> Ident("new", 0),
                  inputs |-> <<Typed("Ident", Ident("name", 0), "String")>>],
                 [kind |-> "Fn", ident |-> Ident("take_damage", 0),
                  inputs |-> <<Receiver(TRUE, TRUE, "&mut Self"),
                               Typed("Ident", Ident("amount", 0), "i32")>>],
                 [kind |-> "Fn", ident |-> Ident("is_alive", 0),
                  inputs |-> <<Receiver(TRUE, FALSE, "&Self")>>]>>]

CounterStruct ==
    [ident |-> Ident("Counter", 0), style |-> "Named",
     fields |-> <<[ident |-> Ident("value", 0), ty |-> "i32"]>>]

CounterImpl ==
    [self_ty |-> Ident("Counter", 0),
     items |-> <<[kind |-> "Fn", ident |-> Ident("increment", 0),
                  inputs |-> <<Receiver(TRUE, TRUE, "&mut Self"),
                               Typed("Ident", Ident("by", 0), "i32")>>],
                 [kind |-> "Fn", ident |-> Ident("get", 0),
                  inputs |-> <<Receiver(TRUE, FALSE, "&Self")>>]>>]

\* Player::new
Player_new(name) == [name |-> name, hp |-> 100, status |-> "Idle"]

\* Player::take_damage
Player_take_damage(this, amount) ==
    LET hp == this.hp - amount
    IN  [this EXCEPT !.hp = IF hp < 0 THEN 0 ELSE hp]

\* Player::is_alive
Player_is_alive(this) == this.hp > 0

\* Counter::increment
Counter_increment(this, by) == [this EXCEPT !.value = this.value + by]

\* Counter::get
Counter_get(this) == this.value

\* the routine #name::#fn_name applied to a receiver and its forwarded arguments:
\* the receiver afterwards and the value returned
Routine(owner, fn_name, this, args) ==
    CASE owner = "Player" /\ fn_name = "new" ->
            [this |-> this, ret |-> Player_new(args[1])]
      [] owner = "Player" /\ fn_name = "take_damage" ->
            [this |-> Player_take_damage(this, args[1]), ret |-> <<>>]
      [] owner = "Player" /\ fn_name = "is_alive" ->
            [this |-> this, ret |-> Player_is_alive(this)]
      [] owner = "Counter" /\ fn_name = "increment" ->
            [this |-> Counter_increment(this, args[1]), ret |-> <<>>]
      [] owner = "Counter" /\ fn_name = "get" ->
            [this |-> this, ret |-> Counter_get(this)]

\* the argument tuples the script passes (30 and 80 in the test, 5 in the scenario)
ScriptArgs(owner, fn_name) ==
    CASE owner = "Player" /\ fn_name = "new" -> {<<"LuaHero">>}
      [] owner = "Player" /\ fn_name = "take_damage" -> {<<30>>, <<80>>}
      [] owner = "Counter" /\ fn_name = "increment" -> {<<5>>, <<1>>}
      [] OTHER -> {<<>>}

----------------------------------------------------------------------------
(* Registration: mlua runs the generated add_fields / add_methods *)

HelperOf(call) ==
    CASE call = "_to_mlua_fields" -> fields_helper
      [] call = "_to_mlua_methods" -> methods_helper
      [] call = "_to_mlua_variants" -> variants_helper

\* the declared type: the struct or the enum of the crate
DeclaredTypes ==
    {to_string(d.ident) : d \in {source.item_struct, source.item_enum}} \ {""}

Range(q) == {q[i] : i \in DOMAIN q}

\* rustc accepts the expanded crate: no macro panicked or returned compile_error!,
\* and every Self::_to_mlua_* the impl calls was generated for that type
Compiles ==
    /\ pc = "done"
    /\ output.kind = "impl_user_data"
    /\ to_string(output.type_name) \in DeclaredTypes
    /\ source.item_struct # NoStruct => fields_helper.state = "generated"
    /\ source.item_enum # NoEnum => variants_helper.state = "generated"
    /\ source.item_impl # NoImpl => methods_helper.state = "generated"
    /\ \A call \in Range(output.add_fields) \cup Range(output.add_methods) :
          /\ HelperOf(call).state = "generated"
          /\ to_string(HelperOf(call).owner) = to_string(output.type_name)

\* the statements of a builder body, run in order
RECURSIVE RunCalls(_)
RunCalls(calls) ==
    IF calls = <<>> THEN <<>>
    ELSE HelperOf(Head(calls)).entries \o RunCalls(Tail(calls))

Register ==
    /\ Compiles
    /\ ~registered
    /\ registered' = TRUE
    /\ field_table' = RunCalls(output.add_fields)
    /\ method_table' = RunCalls(output.add_methods)
    /\ UNCHANGED <<source, buildVars, compileVars, ud, shadow, result>>

\* index of the entry a key resolves to (a later registration replaces an earlier), or 0
Lookup(table, key) ==
    LET hits == {i \in DOMAIN table : table[i].key = key}
    IN  IF hits = {} THEN 0 ELSE CHOOSE i \in hits : \A j \in hits : j <= i

----------------------------------------------------------------------------
(* Script side *)

NoInstance == [rust_type |-> "", value |-> <<>>]
UserData(ty, value) == [rust_type |-> ty, value |-> value]
HasInstance == ud.rust_type # ""

NoErr == [kind |-> "", from |-> "", to |-> ""]
NoResult == [op |-> "", key |-> "", ok |-> TRUE, val |-> <<>>, err |-> NoErr]
Ok(op, key, val) == [op |-> op, key |-> key, ok |-> TRUE, val |-> val, err |-> NoErr]
Err(op, key, err) == [op |-> op, key |-> key, ok |-> FALSE, val |-> <<>>, err |-> err]

\* the instances the host side hands to the script
NewInstances ==
    IF source.item_struct = PlayerStruct THEN {Player_new("LuaHero")}
    ELSE IF source.item_struct = CounterStruct THEN {[value |-> 0]}
    ELSE [{to_string(f.ident) : f \in Range(source.item_struct.fields)} -> 0..1]

Construct ==
    /\ registered
    /\ source.item_struct # NoStruct
    /\ ~HasInstance
    /\ \E inst \in NewInstances :
          /\ ud' = UserData(to_string(source.item_struct.ident), inst)
          /\ shadow' = inst
    /\ result' = Ok("construct", "", <<>>)
    /\ UNCHANGED <<source, buildVars, compileVars, field_table, method_table, registered>>

\* |_, this| Ok(this.#field_name.clone())
GetField(this, entry) == this[to_string(entry.ident)]

\* obj.key
Index(key) ==
    /\ registered
    /\ HasInstance
    /\ LET i == Lookup(field_table, key)
       IN  result' = IF i = 0 THEN Err("index", key, NoErr)
                     ELSE Ok("index", key, GetField(ud.value, field_table[i]))
    /\ UNCHANGED <<source, buildVars, compileVars, field_table, method_table, registered,
                   ud, shadow>>

\* the item of the impl block that declares routine `key` takes &mut self
DeclaredMutating(key) ==
    \E item \in Range(source.item_impl.items) :
        /\ item.kind = "Fn"
        /\ to_string(item.ident) = key
        /\ HasReceiver(item.inputs)
        /\ Head(item.inputs).ty = "&mut Self"

Capped(inst) == "value" \in DOMAIN inst => inst.value <= MaxCounter

\* what a registered method entry does with the borrowed instance: add_method_mut
\* hands the closure `&mut T`, add_method hands it `&T`
CallEntry(entry, this, args) ==
    LET r == Routine(to_string(entry.name), to_string(entry.ident), this, args)
    IN  [this |-> IF entry.api = "add_method_mut" THEN r.this ELSE this, ret |-> r.ret]

\* obj:key(args)
CallMethod(key) ==
    /\ registered
    /\ HasInstance
    /\ LET i == Lookup(method_table, key)
       IN  IF i = 0 \/ method_table[i].api = "add_function"
           THEN /\ result' = Err("call", key, NoErr)
                /\ UNCHANGED <<ud, shadow>>
           ELSE \E args \in ScriptArgs(ud.rust_type, key) :
                  LET r == CallEntry(method_table[i], ud.value, args)
                  IN  /\ Capped(r.this)
                      /\ ud' = [ud EXCEPT !.value = r.this]
                      /\ shadow' = IF DeclaredMutating(key)
                                   THEN Routine(ud.rust_type, key, shadow, args).this
                                   ELSE shadow
                      /\ result' = Ok("call", key, r.ret)
    /\ UNCHANGED <<source, buildVars, compileVars, field_table, method_table, registered>>

\* |_, (): ()| Ok(#name::#variant_name)  and  |_, args| Ok(#name::#fn_name(args))
CallStatic(entry, args) ==
    IF entry.body = "variant" THEN [tag |-> to_string(entry.ident)]
    ELSE Routine(to_string(entry.name), to_string(entry.ident), <<>>, args).ret

\* Type.key(args): the value returned becomes a userdata of the type
CallFunction(key) ==
    /\ registered
    /\ LET i == Lookup(method_table, key)
       IN  IF i = 0 \/ method_table[i].api # "add_function"
           THEN /\ result' = Err("call_function", key, NoErr)
                /\ UNCHANGED <<ud, shadow>>
           ELSE \E args \in ScriptArgs(to_string(method_table[i].name), key) :
                  LET v == CallStatic(method_table[i], args)
                  IN  /\ ud' = UserData(to_string(method_table[i].name), v)
                      /\ shadow' = IF source.item_enum # NoEnum THEN [tag |-> key] ELSE v
                      /\ result' = Ok("call_function", key, <<>>)
    /\ UNCHANGED <<source, buildVars, compileVars, field_table, method_table, registered>>

----------------------------------------------------------------------------
(* impl FromLua for #name *)

LuaValue(variant, payload) == [variant |-> variant, ud |-> payload]

\* mlua::Value::type_name
type_name_of(value) ==
    CASE value.variant = "Nil" -> "nil"
      [] value.variant = "Boolean" -> "boolean"
      [] value.variant = "Integer" -> "integer"
      [] value.variant = "String" -> "string"
      [] value.variant = "Table" -> "table"
      [] value.variant = "UserData" -> "userdata"

\* a borrow that does not check the type of the userdata
borrow_unchecked(op, payload, name) == Ok(op, "userdata", payload.value)

\* ud.borrow::<#name>()?  then  Ok(borrowed.clone())
borrow(op, payload, name) ==
    IF payload.rust_type = name
    THEN Ok(op, "userdata", payload.value)
    ELSE Err(op, "userdata", [kind |-> "UserDataTypeMismatch", from |-> "", to |-> ""])

\* fn from_lua(value, _): match value { UserData(ud) => .., other => Err(..) }
from_lua(impl, value) ==
    IF value.variant = "UserData"
    THEN borrow("from_lua", value.ud, to_string(impl.owner))
    ELSE Err("from_lua", type_name_of(value),
             [kind |-> "FromLuaConversionError", from |-> type_name_of(value),
              to |-> impl.to])

\* the values a script can pass where the enum is expected: a value that is not a
\* userdata, a userdata of another type, or the userdata a constructor returned
ScriptValues == {"Nil", "Boolean", "Integer", "String", "Table", "foreign", "own"}

ScriptValue(which) ==
    CASE which = "own" -> LuaValue("UserData", ud)
      [] which = "foreign" -> LuaValue("UserData", UserData("Player", Player_new("LuaHero")))
      [] OTHER -> LuaValue(which, NoInstance)

FromLua(which) ==
    /\ registered
    /\ variants_helper.state = "generated"
    /\ which = "own" => HasInstance
    /\ result' = [from_lua(variants_helper, ScriptValue(which)) EXCEPT !.op = which]
    /\ UNCHANGED <<source, buildVars, compileVars, field_table, method_table, registered,
                   ud, shadow>>

----------------------------------------------------------------------------
(* The crates explored *)

FieldSyms == {"name", "hp", "status", "value"}
VariantSyms == {"Idle", "Walking", "Attacking", "Dead"}
RoutineSyms == <<"new", "take_damage", "is_alive", "get">>
ParamSyms == <<"amount", "by", "name", "extra">>
ParamTys == <<"i32", "u8", "String", "bool">>

\* struct Record { f1: i32, .. },  struct Record(i32, ..),  struct Record;
Structs ==
    {[ident |-> Ident("Record", 0), style |-> "Named",
      fields |-> [i \in DOMAIN q |-> [ident |-> Ident(q[i], 0), ty |-> "i32"]]] :
        q \in InjSeqsUpTo(FieldSyms, MaxFields)}
    \cup {[ident |-> Ident("Record", 0), style |-> "Unnamed",
           fields |-> [i \in 1..n |-> [ident |-> None, ty |-> "i32"]]] : n \in 1..MaxFields}
    \cup {[ident |-> Ident("Record", 0), style |-> "Unit", fields |-> <<>>]}

\* enum PlayerStatus { A, B(i32), .. }
Enums ==
    {[ident |-> Ident("PlayerStatus", 0),
      variants |-> [i \in DOMAIN q |-> [ident |-> Ident(q[i], 0), fields |-> k[i]]]] :
        <<q, k>> \in {<<q, k>> \in InjSeqsUpTo(VariantSyms, MaxVariants)
                                   \X SeqsUpTo({"Unit", "Unnamed"}, MaxVariants) :
                         Len(q) = Len(k)}}

\* self, &self, &mut self, mut self, and the typed form self: &mut Self
Receivers ==
    {Receiver(FALSE, FALSE, "Self"), Receiver(TRUE, FALSE, "&Self"),
     Receiver(TRUE, TRUE, "&mut Self"), Receiver(FALSE, TRUE, "Self"),
     Receiver(FALSE, FALSE, "&mut Self")}

\* the j-th parameter of a routine, bound by pattern pat
Param(j, pat) ==
    Typed(pat, IF pat = "Ident" THEN Ident(ParamSyms[j], 0) ELSE None, ParamTys[j])

ParamLists(n) ==
    {[j \in DOMAIN pats |-> Param(j, pats[j])] : pats \in SeqsUpTo({"Ident", "Tuple", "Wild"}, n)}

Signatures(n) ==
    ParamLists(n) \cup {<<r>> \o ps : r \in Receivers, ps \in ParamLists(n)}

\* the shapes of an item: a routine with a signature, or an associated const
ItemShapes(n) ==
    {[kind |-> "Fn", inputs |-> sig] : sig \in Signatures(n)}
    \cup {[kind |-> "Const", inputs |-> <<>>]}

\* the i-th item of a block
ImplItem(i, shape) ==
    [kind |-> shape.kind, ident |-> Ident(RoutineSyms[i], 0), inputs |-> shape.inputs]

\* blocks of several items with at most one parameter each, and blocks of one
\* routine with up to MaxParams parameters
ImplBlocks ==
    {[self_ty |-> Ident("Record", 0), items |-> [i \in DOMAIN shapes |-> ImplItem(i, shapes[i])]] :
        shapes \in SeqsUpTo(ItemShapes(1), MaxRoutines)
                   \cup {<<shape>> : shape \in ItemShapes(MaxParams)}}

Crate(item_struct, item_enum, item_impl, tokens) ==
    [item_struct |-> item_struct, item_enum |-> item_enum, item_impl |-> item_impl,
     tokens |-> tokens]

Crates ==
    {Crate(NoStruct, NoEnum, NoImpl, toks) : toks \in WellFormedInputs \cup RawInputs}
    \cup {Crate(st, NoEnum, NoImpl, Render("Record", <<"fields">>, FALSE)) : st \in Structs}
    \cup {Crate(NoStruct, en, NoImpl, Render("PlayerStatus", <<"variants">>, FALSE)) :
            en \in Enums}
    \cup {Crate(NoStruct, NoEnum, im, Render("Record", <<"methods">>, FALSE)) :
            im \in ImplBlocks}
    \cup {Crate(PlayerStruct, NoEnum, PlayerImpl, Render("Player", syms, FALSE)) :
            syms \in {<<"fields", "methods">>, <<"methods">>, <<"fields">>}}
    \cup {Crate(CounterStruct, NoEnum, CounterImpl, Render("Counter", <<"fields", "methods">>, TRUE))}
    \cup {Crate(NoStruct, PlayerStatusEnum, NoImpl, Render("PlayerStatus", syms, FALSE)) :
            syms \in {<<"variants">>, <<>>}}

----------------------------------------------------------------------------
(* The specification *)

Init ==
    /\ source \in Crates
    /\ fields_helper = NoHelper
    /\ variants_helper = NoHelper
    /\ methods_helper = NoHelper
    /\ pc = "parse"
    /\ cursor = 1
    /\ iters = 0
    /\ type_name = None
    /\ helpers = <<>>
    /\ has_fields = FALSE
    /\ has_methods = FALSE
    /\ has_variants = FALSE
    /\ hidx = 1
    /\ output = NoOutput
    /\ field_table = <<>>
    /\ method_table = <<>>
    /\ registered = FALSE
    /\ ud = NoInstance
    /\ shadow = <<>>
    /\ result = NoResult

\* the keys a script uses: every registered or declared name, and one that is neither
ScriptKeys ==
    {field_table[i].key : i \in DOMAIN field_table}
    \cup {method_table[i].key : i \in DOMAIN method_table}
    \cup {to_string(f.ident) : f \in Range(source.item_struct.fields)}
    \cup {to_string(v.ident) : v \in Range(source.item_enum.variants)}
    \cup {to_string(m.ident) : m \in Range(source.item_impl.items)}
    \cup {"missing"}

Next ==
    \/ ParseTypeName
    \/ ParseReturn
    \/ ParseComma
    \/ ParseBreak
    \/ ParseHelper
    \/ CheckHelper
    \/ Emit
    \/ Structure
    \/ Enumeration
    \/ Implementation
    \/ Register
    \/ Construct
    \/ \E key \in ScriptKeys : Index(key)
    \/ \E key \in ScriptKeys : CallMethod(key)
    \/ \E key \in ScriptKeys : CallFunction(key)
    \/ \E which \in ScriptValues : FromLua(which)

Spec == Init /\ [][Next]_vars


----------------------------------------------------------------------------
(* Properties *)

Vocabulary == {"fields", "methods", "variants"}

\* the grammar Ident (',' Ident)* with an optional trailing comma, read off the
\* token positions: identifiers at the odd places, commas at the even ones
IsList(toks) ==
    /\ Len(toks) >= 1
    /\ \A i \in 1..Len(toks) : toks[i].kind = (IF i % 2 = 1 THEN "Ident" ELSE "Comma")

\* the helper names of a list, in input order
ListSyms(toks) == [k \in 1..((Len(toks) - 1) \div 2) |-> toks[2 * k + 1].sym]

Syms(idents) == [i \in DOMAIN idents |-> to_string(idents[i])]

ParseDone == pc \in {"for", "done"}
ParseFailed ==
    pc = "done" /\ output.kind = "compile_error" /\ output.message # UnknownHelperMessage

\* C1: for a list whose helper tokens are all in the vocabulary, the emitted impl's
\* add_fields calls the fields helper iff `fields` occurs and nothing else, and its
\* add_methods calls the methods helper iff `methods` occurs, then the variants
\* helper iff `variants` occurs; add_fields never calls the variants helper.
C1_SelectedHelpers ==
    (/\ pc = "done"
     /\ IsList(source.tokens)
     /\ Range(ListSyms(source.tokens)) \subseteq Vocabulary)
    => LET syms == Range(ListSyms(source.tokens))
       IN  /\ output.kind = "impl_user_data"
           /\ output.add_fields =
                (IF "fields" \in syms THEN <<"_to_mlua_fields">> ELSE <<>>)
           /\ output.add_methods =
                (IF "methods" \in syms THEN <<"_to_mlua_methods">> ELSE <<>>)
                \o (IF "variants" \in syms THEN <<"_to_mlua_variants">> ELSE <<>>)
           /\ "_to_mlua_variants" \notin Range(output.add_fields)

C1_Witness ==
    /\ pc = "done"
    /\ source.tokens = Render("Player", <<"fields", "methods">>, FALSE)
    /\ source.item_struct = NoStruct
    /\ output.add_fields = <<"_to_mlua_fields">>
    /\ output.add_methods = <<"_to_mlua_methods">>

\* the position of the first helper token outside the vocabulary
FirstUnknown(toks) ==
    CHOOSE i \in 1..Len(toks) :
        /\ i % 2 = 1 /\ i > 1 /\ toks[i].sym \notin Vocabulary
        /\ \A j \in 2..(i - 1) : j % 2 = 1 => toks[j].sym \in Vocabulary

\* C2: a list with a helper token outside the vocabulary, wherever it stands, fails
\* with the diagnostic that names the vocabulary, located at the offending token,
\* and no impl block is emitted or registered.
C2_UnknownHelper ==
    (/\ pc = "done"
     /\ IsList(source.tokens)
     /\ ~(Range(ListSyms(source.tokens)) \subseteq Vocabulary))
    => /\ output.kind = "compile_error"
       /\ output.message = UnknownHelperMessage
       /\ output.span = FirstUnknown(source.tokens)
       /\ source.tokens[output.span].sym \notin Vocabulary
       /\ output.add_fields = <<>> /\ output.add_methods = <<>>
       /\ ~registered

C2_Witness ==
    /\ pc = "done"
    /\ source.tokens = Render("Player", <<"fields", "bogus">>, FALSE)
    /\ output.kind = "compile_error"
    /\ source.tokens[output.span].sym = "bogus"

\* C3: parse succeeds exactly on the lists Ident (',' Ident)* with an optional
\* trailing comma, returns the first identifier as type_name and the others as
\* helpers in input order, and its loop runs at most once per token.
C3_Parse ==
    /\ iters <= Len(source.tokens)
    /\ cursor <= Len(source.tokens) + 1
    /\ ParseDone =>
          /\ ~ParseFailed <=> IsList(source.tokens)
          /\ ~ParseFailed =>
                /\ to_string(type_name) = source.tokens[1].sym
                /\ Syms(helpers) = ListSyms(source.tokens)
                /\ \A i \in DOMAIN helpers : source.tokens[helpers[i].span].sym = helpers[i].sym

C3_Witness ==
    /\ pc = "for"
    /\ source.tokens = Render("Player", <<"methods", "fields", "methods">>, TRUE)
    /\ Syms(helpers) = <<"methods", "fields", "methods">>
    /\ iters = 4


IsFn(item) == item.kind = "Fn"
Routines == SelectSeq(source.item_impl.items, IsFn)

\* a routine declared with a receiver of type &Self, resp. &mut Self
ImmutableReceiver(inputs) == HasReceiver(inputs) /\ Head(inputs).ty = "&Self"
MutableReceiver(inputs) == HasReceiver(inputs) /\ Head(inputs).ty = "&mut Self"

\* C4: the method helper holds exactly one entry per routine, in declaration order,
\* keyed by the routine's name: add_function for a routine without receiver,
\* add_method for one with an immutable receiver, add_method_mut for one with a
\* mutable receiver; items that are not routines yield none.
C4_Classification ==
    methods_helper.state = "generated" =>
        LET es == methods_helper.entries
        IN  /\ Len(es) = Len(Routines)
            /\ \A i \in 1..Len(Routines) :
                  LET inputs == Routines[i].inputs
                  IN  /\ es[i].key = Routines[i].ident.sym
                      /\ ~HasReceiver(inputs) => es[i].api = "add_function"
                      /\ ImmutableReceiver(inputs) => es[i].api = "add_method"
                      /\ MutableReceiver(inputs) => es[i].api = "add_method_mut"

FieldNames == {to_string(f.ident) : f \in Range(source.item_struct.fields)}

\* C5: the fields helper of a record with N named fields holds N getters, one per
\* field in declaration order, keyed by the field's name, and no setter; a getter
\* returns the field's current value and leaves the instance as it was.
C5_Getters ==
    /\ fields_helper.state = "generated" =>
          LET fs == source.item_struct.fields
              es == fields_helper.entries
          IN  /\ Len(es) = Len(fs)
              /\ \A i \in 1..Len(fs) :
                    /\ es[i].api = "add_field_method_get"
                    /\ es[i].key = fs[i].ident.sym
    /\ (HasInstance /\ source.item_struct # NoStruct) =>
          /\ ud.value = shadow
          /\ (/\ output.add_fields # <<>>
              /\ result.op = "index"
              /\ result.key \in FieldNames)
             => result.ok /\ result.val = shadow[result.key]

C5_Witness ==
    /\ source.item_struct.ident = Ident("Record", 0)
    /\ Len(fields_helper.entries) = 3
    /\ HasInstance
    /\ result.op = "index"
    /\ result.key = "hp"
    /\ result.val = 1

IsUnitVariant(v) == v.fields = "Unit"
UnitVariants == SelectSeq(source.item_enum.variants, IsUnitVariant)

\* C6: the variants helper of an enum holds one zero-argument constructor per unit
\* variant, keyed by its name, none for the others, and the macro raises no error;
\* the value the constructor for V returns, wrapped as userdata and passed through
\* from_lua, has tag V.
C6_UnitConstructors ==
    /\ variants_helper # NoHelper =>
          LET es == variants_helper.entries
          IN  /\ variants_helper.state = "generated"
              /\ Len(es) = Len(UnitVariants)
              /\ \A i \in 1..Len(es) :
                    /\ es[i].api = "add_function"
                    /\ es[i].key = UnitVariants[i].ident.sym
                    /\ es[i].arg_names = <<>> /\ es[i].arg_tys = <<>>
    /\ (HasInstance /\ source.item_enum # NoEnum) =>
          /\ ud.value = shadow
          /\ result.op = "call_function" /\ result.ok => shadow.tag = result.key
          /\ result.op = "own" => result.ok /\ result.val.tag = shadow.tag

C6_Witness ==
    /\ Len(source.item_enum.variants) = 3
    /\ Len(variants_helper.entries) = 2
    /\ HasInstance
    /\ result.op = "own"
    /\ result.ok
    /\ result.val.tag = "Walking"

NotUserData == {"Nil", "Boolean", "Integer", "String", "Table"}
Observed ==
    [Nil |-> "nil", Boolean |-> "boolean", Integer |-> "integer", String |-> "string",
     Table |-> "table", foreign |-> "userdata"]

DeclaredReading(key) ==
    \E item \in Range(source.item_impl.items) :
        IsFn(item) /\ to_string(item.ident) = key /\ ImmutableReceiver(item.inputs)

\* C8: on a type assembled with fields and methods, after any sequence of script
\* operations the instance is as the last mutating call left it, and every field
\* read and every read call returns what that instance holds.
C8_ReadsSeeLastWrite ==
    (/\ HasInstance
     /\ source.item_impl # NoImpl
     /\ "fields" \in Range(Syms(helpers))
     /\ "methods" \in Range(Syms(helpers)))
    => /\ ud.value = shadow
       /\ (result.op = "index" /\ result.key \in FieldNames)
          => result.ok /\ result.val = shadow[result.key]
       /\ (result.op = "call" /\ DeclaredReading(result.key))
          => result.ok /\ result.val = Routine(ud.rust_type, result.key, shadow, <<>>).ret
       /\ (result.op = "call" /\ DeclaredMutating(result.key)) => result.ok

C8_Witness ==
    /\ source.item_struct = CounterStruct
    /\ result.op = "call"
    /\ result.key = "get"
    /\ result.val = 5
    /\ ud.value.value = 5

\* C9: a record with a field that has no name makes #[structure] abort: no helper
\* is emitted and nothing is registered; a record without fields yields a helper
\* with no entries.
C9_TupleRecordAborts ==
    fields_helper # NoHelper =>
        LET fs == source.item_struct.fields
        IN  /\ (\E i \in 1..Len(fs) : fs[i].ident = None) =>
                  /\ fields_helper = Panicked
                  /\ ~registered
                  /\ field_table = <<>>
            /\ (\A i \in 1..Len(fs) : fs[i].ident # None) =>
                  fields_helper.state = "generated"
            /\ fs = <<>> =>
                  fields_helper.state = "generated" /\ fields_helper.entries = <<>>

C9_Witness ==
    /\ source.item_struct.style = "Unnamed"
    /\ Len(source.item_struct.fields) = 2
    /\ fields_helper.state = "panicked"
    /\ pc = "done"

\* the positions of the parameters bound by a plain identifier, and the n-th of them
IdentParams(inputs) ==
    {j \in DOMAIN inputs : inputs[j].kind = "Typed" /\ inputs[j].pat = "Ident"}
Nth(K, n) == CHOOSE j \in K : Cardinality({k \in K : k <= j}) = n

\* C10: the forwarded signature of a routine's entry is the subsequence of its
\* non-receiver parameters bound by a plain identifier, in declaration order, the
\* i-th name with the i-th type; the other parameters are dropped.
C10_ForwardedSignature ==
    methods_helper.state = "generated" =>
        /\ Len(methods_helper.entries) = Len(Routines)
        /\ \A i \in 1..Len(Routines) :
              LET inputs == Routines[i].inputs
                  e == methods_helper.entries[i]
                  K == IdentParams(inputs)
              IN  /\ Len(e.arg_names) = Cardinality(K)
                  /\ Len(e.arg_tys) = Cardinality(K)
                  /\ \A n \in 1..Cardinality(K) :
                        /\ e.arg_names[n] = inputs[Nth(K, n)].ident
                        /\ e.arg_tys[n] = inputs[Nth(K, n)].ty

C10_Witness ==
    /\ methods_helper.state = "generated"
    /\ Len(source.item_impl.items) = 1
    /\ Len(source.item_impl.items[1].inputs) = 3
    /\ source.item_impl.items[1].inputs[2].pat = "Tuple"
    /\ methods_helper.entries[1].arg_names = <<Ident("by", 0)>>
    /\ methods_helper.entries[1].arg_tys = <<"u8">>

====
